---- MODULE Spec2Model ----
(***************************************************************************)
(* A state-machine model of src/src/App.jsx: the React component App that  *)
(* keeps a clustered map render, the sidebar list of visible categories,   *)
(* the highlight state, the long-press gesture and the entity collection   *)
(* in step.                                                                *)
(*                                                                         *)
(* One JavaScript macrotask (an event handler, a timer callback, a promise *)
(* settling from the network or from the rendering engine), together with  *)
(* the microtasks, the React re-render and the effects it causes, is one   *)
(* action.  The rendering engine, the remote API, the timers and the user  *)
(* are the environment: their inputs are drawn from small sets.            *)
(***************************************************************************)
EXTENDS Integers, Sequences, FiniteSets, TLC

(***************************************************************************)
(* Bounds of the model.                                                    *)
(***************************************************************************)
MaxTasks == 3      \* async passes (highlight / aggregation) ever started
MaxPresses == 2    \* pointer-down events ever delivered
MaxClicks == 2     \* sidebar clicks ever delivered
MaxRemote == 2     \* remote add / remove calls ever issued

None == "none"     \* JavaScript null / undefined

(***************************************************************************)
(* Data: entities as GeoJSON features.  cell abstracts the coordinate: the *)
(* clustering index groups the entities of one cell.                       *)
(***************************************************************************)
Names == {"Oak", "Elm", "Ash"}

Entity(id, name, cell) == [location_id |-> id, common_name |-> name, cell |-> cell]

\* what fetchTreeLocations resolves to
Fetched ==
  << Entity(1, "Oak", 1), Entity(2, "Oak", 1), Entity(3, "Elm", 1),
     Entity(4, "Elm", 2), Entity(5, "Ash", 2) >>

\* event.lngLat: every pointer-down lands on a coordinate of its own, here the
\* number of the press; CellOf is the neighbourhood the coordinate lies in
EventLngLat(press) == press
CellOf(lngLat) == ((lngLat + 1) % 2) + 1

\* the points the user presses: a fetched one and the first one added
PressedPoints == {1, Len(Fetched) + 1}

\* the category the user picks in NewTreeForm
FormNames == {"Ash"}

\* what window.prompt can return: null (cancelled) or the text typed
Token(isNull, text) == [null |-> isNull, text |-> text]
Tokens == { Token(TRUE, <<>>), Token(FALSE, <<>>), Token(FALSE, <<" ">>),
            Token(FALSE, <<"a">>) }

(***************************************************************************)
(* The rendering engine's view of the source 'trees'.                      *)
(* A rendered feature is a point (cluster = FALSE, id = location_id) or a  *)
(* cluster (cluster = TRUE, id = cluster_id).                              *)
(***************************************************************************)
Views ==
  { [clustered |-> FALSE, cells |-> {1, 2}, dup |-> FALSE],   \* zoom 18, the initial viewport
    [clustered |-> TRUE,  cells |-> {1, 2}, dup |-> FALSE],   \* zoomed out: both cells cluster
    [clustered |-> TRUE,  cells |-> {2},    dup |-> FALSE],   \* zoomed out, panned to cell 2
    [clustered |-> FALSE, cells |-> {2},    dup |-> TRUE] }   \* zoomed in on a tile boundary

InitialView == [clustered |-> FALSE, cells |-> {1, 2}, dup |-> FALSE]

PointFeature(e) == [cluster |-> FALSE, id |-> e.location_id, common_name |-> e.common_name]
ClusterFeature(c) == [cluster |-> TRUE, id |-> c, common_name |-> ""]

RECURSIVE MapPoints(_)
MapPoints(s) == IF s = <<>> THEN <<>> ELSE <<PointFeature(Head(s))>> \o MapPoints(Tail(s))

CellSize(data, c) == Cardinality({ i \in 1..Len(data) : data[i].cell = c })

IsClustered(data, v, c) == v.clustered /\ CellSize(data, c) >= 2

\* queryRenderedFeatures({layers: ["unclustered-point"]})
RenderedPoints(data, v) ==
  LET vis(e) == e.cell \in v.cells /\ ~IsClustered(data, v, e.cell)
      pts == MapPoints(SelectSeq(data, vis))
  IN  IF v.dup THEN pts \o pts ELSE pts

RECURSIVE ClustersFrom(_, _, _)
ClustersFrom(data, v, c) ==
  IF c > 2 THEN <<>>
  ELSE (IF c \in v.cells /\ IsClustered(data, v, c) THEN <<ClusterFeature(c)>> ELSE <<>>)
       \o ClustersFrom(data, v, c + 1)

\* queryRenderedFeatures({layers: ["clusters"]})
RenderedClusters(data, v) == ClustersFrom(data, v, 1)

\* the leaves the index holds for a cluster identifier
ClusterLeaves(data, c) ==
  LET inCell(e) == e.cell = c IN MapPoints(SelectSeq(data, inCell))

(***************************************************************************)
(* updateVisibleTrees, lines 78-95: the pure parts.                        *)
(***************************************************************************)
\* updateVisibleTrees without lines 80-82
DedupNone(trees, seen) == trees

\* lines 80-82: the first feature of every location_id, in first-occurrence order
RECURSIVE Dedup(_, _)
Dedup(trees, seen) ==
  IF trees = <<>> THEN <<>>
  ELSE IF Head(trees).id \in seen THEN Dedup(Tail(trees), seen)
       ELSE <<Head(trees)>> \o Dedup(Tail(trees), seen \cup {Head(trees).id})

\* lines 88-89: groups[common_name].push(cluster); a JS object keeps insertion order
PushGroup(groups, name, item) ==
  IF \E i \in 1..Len(groups) : groups[i].name = name
  THEN [ i \in 1..Len(groups) |->
           IF groups[i].name = name
           THEN [groups[i] EXCEPT !.feats = Append(@, item)]
           ELSE groups[i] ]
  ELSE Append(groups, [name |-> name, feats |-> <<item>>])

\* lines 87-90: features.forEach(...)
RECURSIVE GroupFeatures(_, _, _)
GroupFeatures(groups, features, item) ==
  IF features = <<>> THEN groups
  ELSE GroupFeatures(PushGroup(groups, Head(features).common_name, item),
                     Tail(features), item)

\* line 94: Array.prototype.sort is stable; (a, b) => b[1].length - a[1].length
RECURSIVE InsertSorted(_, _)
InsertSorted(sorted, g) ==
  IF sorted = <<>> THEN <<g>>
  ELSE IF Len(Head(sorted).feats) >= Len(g.feats)
       THEN <<Head(sorted)>> \o InsertSorted(Tail(sorted), g)
       ELSE <<g>> \o sorted

RECURSIVE SortGroups(_)
SortGroups(groups) ==
  IF groups = <<>> THEN <<>>
  ELSE InsertSorted(SortGroups(SubSeq(groups, 1, Len(groups) - 1)), groups[Len(groups)])


(***************************************************************************)
(* State.                                                                  *)
(***************************************************************************)
VARIABLES
  \* React state of App, lines 111-121
  treeLocations,        \* the Entity Collection: treeLocations.features
  visibleTrees,         \* the published sidebar list
  highlightedTree,      \* a category name or None
  isFormVisible,
  newTreeCoordinates,   \* a coordinate, or NoCoord for []
  mapLoaded, dataLoaded, layersLoaded,
  \* refs
  longPressTimeoutRef,  \* a timer id, or NoTimer for null
  \* the component and its map
  mounted,              \* FALSE once the effect cleanups have run and map.remove() was called
  view,                 \* the viewport of the rendering engine
  sourceData,           \* the data held by the source 'trees'
  layerInstalls,        \* calls of addTreeLayers
  idleHooks,            \* listeners registered with map.once("idle")
  pointFilter,          \* ["in", "common_name", v]: v
  clusterFilter,        \* ["in", "cluster_id", ...ids]: ids
  \* asynchronous work
  tasks,                \* passes suspended on a cluster expansion
  timerQueue,           \* pending debounce timers, oldest deadline first
  dwellTimers,          \* pending setTimeout(handleLongPress, 1000) timers
  pendingAdds,          \* sendAddLocation calls in flight
  pendingRemoves,       \* sendRemoveLocation calls in flight
  popup,                \* the closure behind the open popup's close button (at most one)
  pointer,              \* the press in progress (0: none)
  \* history
  nTasks, aggGen, nClicks, nPresses, nRemote,
  pub,                  \* which aggregation pass published visibleTrees
  rejected,             \* passes ended by a rejected promise
  lastFilterWrite,      \* the highlight pass that wrote the filters last
  clickLog,             \* the last sidebar click
  presses,              \* the pointer-down events delivered so far
  intents,              \* the handleLongPress calls so far
  sentTokens,           \* the confirmation tokens sendRemoveLocation was called with
  remoteLog             \* the last settled remote call

reactVars == <<treeLocations, visibleTrees, highlightedTree, isFormVisible,
               newTreeCoordinates, mapLoaded, dataLoaded, layersLoaded>>
mapVars == <<mounted, view, sourceData, layerInstalls, idleHooks, pointFilter, clusterFilter>>
asyncVars == <<tasks, timerQueue, dwellTimers, pendingAdds, pendingRemoves, popup,
               pointer, longPressTimeoutRef>>
histVars == <<nTasks, aggGen, nClicks, nPresses, nRemote, pub, rejected,
              lastFilterWrite, clickLog, presses, intents, sentTokens, remoteLog>>
vars == <<reactVars, mapVars, asyncVars, histVars>>

NoId == 0      \* stands for the literal "" in ["in", "cluster_id", ""]
NoCoord == 0   \* stands for the empty array newTreeCoordinates starts as
NoTimer == 0   \* stands for null in longPressTimeoutRef

filterVars == <<pointFilter, clusterFilter, lastFilterWrite>>

(***************************************************************************)
(* Init: the state after the first render of App, lines 98-121 and         *)
(* 185-229: the map is being created and fetchData is in flight.           *)
(***************************************************************************)
Init ==
  /\ treeLocations = <<>>
  /\ visibleTrees = <<>>
  /\ highlightedTree = None
  /\ isFormVisible = FALSE
  /\ newTreeCoordinates = NoCoord
  /\ mapLoaded = FALSE /\ dataLoaded = FALSE /\ layersLoaded = FALSE
  /\ longPressTimeoutRef = NoTimer
  /\ mounted = TRUE
  /\ view = InitialView
  /\ sourceData = <<>>
  /\ layerInstalls = 0
  /\ idleHooks = 0
  /\ pointFilter = "" /\ clusterFilter = <<NoId>>    \* lines 33 and 58
  /\ tasks = {}
  /\ timerQueue = <<>>
  /\ dwellTimers = {}
  /\ pendingAdds = {} /\ pendingRemoves = {}
  /\ popup = {}
  /\ pointer = 0
  /\ nTasks = 0 /\ aggGen = 0 /\ nClicks = 0 /\ nPresses = 0 /\ nRemote = 0
  /\ pub = [gen |-> 0, max |-> 0, maxResult |-> <<>>, count |-> 0, raw |-> <<>>]
  /\ rejected = {}
  /\ lastFilterWrite = <<>>
  /\ clickLog = <<>>
  /\ presses = <<>>
  /\ intents = <<>>
  /\ sentTokens = {}
  /\ remoteLog = <<>>

(***************************************************************************)
(* updateVisibleTrees, lines 78-95, as a resumable pass.                   *)
(***************************************************************************)
\* lines 79-83: the features the pass walks, queried when it starts
AggItems ==
  Dedup(RenderedPoints(sourceData, view), {}) \o RenderedClusters(sourceData, view)

\* lines 79 and 83: what the two queryRenderedFeatures calls returned
AggRaw == RenderedPoints(sourceData, view) \o RenderedClusters(sourceData, view)

\* lines 84-92 from item i on, up to the next cluster: its expansion (line 86)
\* suspends the pass until the rendering engine calls back
RECURSIVE AggRun(_, _, _)
AggRun(items, i, groups) ==
  IF i > Len(items) THEN [i |-> i, groups |-> groups]
  ELSE IF items[i].cluster THEN [i |-> i, groups |-> groups]
  ELSE AggRun(items, i + 1, GroupFeatures(groups, <<items[i]>>, items[i]))

\* line 94: setVisibleTrees(...), called by n passes that ran in the same task on
\* the rendered features raw
Publish(gen, n, raw, result) ==
  /\ visibleTrees' = result
  /\ pub' = [gen |-> gen,
             max |-> IF gen >= pub.max THEN gen ELSE pub.max,
             maxResult |-> IF gen >= pub.max THEN result ELSE pub.maxResult,
             count |-> pub.count + n,
             raw |-> raw]

\* the pass after AggRun: it publishes (line 94) or waits for an expansion.
\* The pass started by the "idle" listener then sets layersLoaded (line 236), and
\* the effect of lines 280-284 hands treeLocations to the source.
ContinueAggregation(kind, id, gen, raw, items, r, others) ==
  IF r.i > Len(items)
  THEN /\ tasks' = others
       /\ Publish(gen, 1, raw, SortGroups(r.groups))
       /\ layersLoaded' = IF kind = "idle" THEN TRUE ELSE layersLoaded
       /\ sourceData' = IF kind = "idle" /\ ~layersLoaded THEN treeLocations ELSE sourceData
  ELSE /\ tasks' = others \cup
                   { [id |-> id, kind |-> kind, stage |-> "aggregate", name |-> None,
                      items |-> items, i |-> r.i, ids |-> <<>>, groups |-> r.groups,
                      gen |-> gen, raw |-> raw] }
       /\ UNCHANGED <<visibleTrees, pub, layersLoaded, sourceData>>

\* a call of updateVisibleTrees
StartAggregation(kind, id, others) ==
  /\ aggGen' = aggGen + 1
  /\ ContinueAggregation(kind, id, aggGen + 1, AggRaw, AggItems,
                         AggRun(AggItems, 1, <<>>), others)

(***************************************************************************)
(* highlightTree, lines 149-167.                                           *)
(***************************************************************************)
\* line 157 testing the first leaf only
LeavesMatchFirst(leaves, treeName) ==
  leaves # <<>> /\ leaves[1].common_name = treeName

\* line 157
LeavesMatch(leaves, treeName) ==
  \E k \in 1..Len(leaves) : leaves[k].common_name = treeName

\* lines 161-162 and 164-165: the two setFilter calls
SetFilters(treeName, clusters, ids) ==
  /\ pointFilter' = IF treeName = None THEN "" ELSE treeName
  /\ clusterFilter' = IF treeName = None THEN <<NoId>> ELSE ids
  /\ lastFilterWrite' = << [name |-> treeName, clusters |-> clusters] >>


(***************************************************************************)
(* The effects of App that react to a state change.                        *)
(***************************************************************************)
\* lines 231-239, run with the new values of its dependencies: addTreeLayers and
\* map.once("idle", ...).  The model counts the calls; a source that already
\* exists keeps its data until setData
EffectLayers(loaded, data) ==
  IF loaded
  THEN /\ layerInstalls' = layerInstalls + 1
       /\ idleHooks' = idleHooks + 1
       /\ sourceData' = IF layerInstalls = 0 THEN data ELSE sourceData
  ELSE UNCHANGED <<layerInstalls, idleHooks, sourceData>>

\* lines 231-239 followed by lines 280-284, after treeLocations changed with
\* every flag set: addTreeLayers again, then setData(treeLocations).  The engine
\* is taken to keep the source it has; one that throws on the repeated addSource
\* ends the component, which is the step Teardown right after this one
EffectsOfCollection(data) ==
  /\ layerInstalls' = layerInstalls + 1
  /\ idleHooks' = idleHooks + 1
  /\ sourceData' = IF layersLoaded THEN data ELSE sourceData

\* lines 364-380: a change of highlightedTree re-runs the effect; the old
\* debounced function is unsubscribed, its pending timer is left running
OrphanTimers(q) == [ k \in 1..Len(q) |-> [q[k] EXCEPT !.current = FALSE] ]

\* lodash debounce(fn, 300), trailing edge: a call restarts the timer of this
\* debounced function
RestartTimer(q, treeName) ==
  LET notCurrent(t) == ~t.current
  IN  Append(SelectSeq(q, notCurrent), [name |-> treeName, current |-> TRUE])

(***************************************************************************)
(* Start-up.                                                               *)
(***************************************************************************)
\* lines 203-204: map.on("load", ...)
MapLoad ==
  /\ mounted /\ ~mapLoaded
  /\ mapLoaded' = TRUE
  /\ EffectLayers(dataLoaded, treeLocations)
  /\ UNCHANGED <<treeLocations, visibleTrees, highlightedTree, isFormVisible,
                 newTreeCoordinates, dataLoaded, layersLoaded>>
  /\ UNCHANGED <<mounted, view, pointFilter, clusterFilter>>
  /\ UNCHANGED <<asyncVars, histVars>>

\* lines 177-183: fetchData resolves
FetchData ==
  /\ mounted /\ ~dataLoaded
  /\ treeLocations' = Fetched
  /\ dataLoaded' = TRUE
  /\ EffectLayers(mapLoaded, Fetched)
  /\ UNCHANGED <<visibleTrees, highlightedTree, isFormVisible, newTreeCoordinates,
                 mapLoaded, layersLoaded>>
  /\ UNCHANGED <<mounted, view, pointFilter, clusterFilter>>
  /\ UNCHANGED <<asyncVars, histVars>>

\* lines 234-237: the "idle" event runs every listener registered with
\* map.once("idle"), one after the other in the same task: each calls
\* updateVisibleTrees on the same rendered features, then setLayersLoaded
MapIdle ==
  /\ mounted /\ idleHooks > 0 /\ nTasks + idleHooks <= MaxTasks
  /\ idleHooks' = 0
  /\ nTasks' = nTasks + idleHooks
  /\ aggGen' = aggGen + idleHooks
  /\ LET r == AggRun(AggItems, 1, <<>>)
     IN  IF r.i > Len(AggItems)
         THEN /\ Publish(aggGen + idleHooks, idleHooks, AggRaw, SortGroups(r.groups))
              /\ layersLoaded' = TRUE
              /\ sourceData' = IF layersLoaded THEN sourceData ELSE treeLocations
              /\ UNCHANGED tasks
         ELSE /\ tasks' = tasks \cup
                    { [id |-> nTasks + k, kind |-> "idle", stage |-> "aggregate",
                       name |-> None, items |-> AggItems, i |-> r.i, ids |-> <<>>,
                       groups |-> r.groups, gen |-> aggGen + k, raw |-> AggRaw] :
                      k \in 1..idleHooks }
              /\ UNCHANGED <<visibleTrees, pub, layersLoaded, sourceData>>
  /\ UNCHANGED <<treeLocations, highlightedTree, isFormVisible, newTreeCoordinates,
                 mapLoaded, dataLoaded>>
  /\ UNCHANGED <<mounted, view, layerInstalls, pointFilter, clusterFilter>>
  /\ UNCHANGED <<timerQueue, dwellTimers, pendingAdds, pendingRemoves, popup, pointer,
                 longPressTimeoutRef>>
  /\ UNCHANGED <<nClicks, nPresses, nRemote, rejected, lastFilterWrite, clickLog,
                 presses, intents, sentTokens, remoteLog>>

\* lines 222-224 and the cleanups of lines 271-277, 358-361, 374-379: the
\* component is torn down; no timer is cleared
Teardown ==
  /\ mounted
  /\ mounted' = FALSE
  /\ UNCHANGED <<reactVars, asyncVars, histVars>>
  /\ UNCHANGED <<view, sourceData, layerInstalls, idleHooks, pointFilter, clusterFilter>>

(***************************************************************************)
(* The viewport and the highlight state.                                   *)
(***************************************************************************)
\* lines 369-373: debouncedUpdateMap is subscribed to moveend and zoomend
ViewportSubscribed == mounted /\ mapLoaded

\* lines 369-373: a moveend / zoomend event calls the subscribed debounced function
ViewChange(v) ==
  /\ mounted
  /\ view' = v
  /\ timerQueue' = IF ViewportSubscribed THEN RestartTimer(timerQueue, highlightedTree)
                   ELSE timerQueue
  /\ popup' = {}                                   \* the popup is closeOnMove, line 104
  /\ UNCHANGED reactVars
  /\ UNCHANGED <<mounted, sourceData, layerInstalls, idleHooks, pointFilter, clusterFilter>>
  /\ UNCHANGED <<tasks, dwellTimers, pendingAdds, pendingRemoves, pointer,
                 longPressTimeoutRef>>
  /\ UNCHANGED <<nTasks, aggGen, nClicks, nPresses, nRemote, pub, rejected,
                 lastFilterWrite, clickLog, presses, intents, sentTokens, remoteLog>>

\* highlightTree(treeName) up to its first await; then(others) is what follows its
\* completion in the same task
HighlightTask(id, kind, treeName, clusters) ==
  [id |-> id, kind |-> kind, stage |-> "highlight", name |-> treeName,
   items |-> clusters, i |-> 1, ids |-> <<>>, groups |-> <<>>, gen |-> 0, raw |-> <<>>]

\* lines 365-368 when the debounce timer fires: updateMap(treeName)
DebounceFires ==
  /\ timerQueue # <<>>
  /\ mounted /\ nTasks < MaxTasks
  /\ timerQueue' = Tail(timerQueue)
  /\ nTasks' = nTasks + 1
  /\ LET treeName == Head(timerQueue).name
         clusters == RenderedClusters(sourceData, view)
     IN  IF treeName # None /\ clusters # <<>>
         THEN /\ tasks' = tasks \cup {HighlightTask(nTasks + 1, "updateMap", treeName, clusters)}
              /\ UNCHANGED <<filterVars, visibleTrees, aggGen, pub, layersLoaded, sourceData>>
         ELSE /\ SetFilters(treeName, clusters, <<>>)
              /\ StartAggregation("updateMap", nTasks + 1, tasks)
  /\ UNCHANGED <<treeLocations, highlightedTree, isFormVisible, newTreeCoordinates,
                 mapLoaded, dataLoaded>>
  /\ UNCHANGED <<mounted, view, layerInstalls, idleHooks>>
  /\ UNCHANGED <<dwellTimers, pendingAdds, pendingRemoves, popup, pointer,
                 longPressTimeoutRef>>
  /\ UNCHANGED <<nClicks, nPresses, nRemote, rejected, clickLog, presses, intents,
                 sentTokens, remoteLog>>

\* a debounce timer that outlives the component: updateMap runs against the
\* removed map and its promise rejects
DebounceFiresUnmounted ==
  /\ timerQueue # <<>>
  /\ ~mounted
  /\ timerQueue' = Tail(timerQueue)
  /\ rejected' = rejected \cup {[kind |-> "updateMap", stage |-> "disposed"]}
  /\ UNCHANGED <<reactVars, mapVars>>
  /\ UNCHANGED <<tasks, dwellTimers, pendingAdds, pendingRemoves, popup, pointer,
                 longPressTimeoutRef>>
  /\ UNCHANGED <<nTasks, aggGen, nClicks, nPresses, nRemote, pub,
                 lastFilterWrite, clickLog, presses, intents, sentTokens, remoteLog>>

\* handleTreeListClick without the toggle of lines 170-172
ToggleTargetNever(treeName, current) == treeName

\* lines 170-172
ToggleTarget(treeName, current) == IF treeName = current THEN None ELSE treeName

VisibleNames == { visibleTrees[k].name : k \in 1..Len(visibleTrees) }

\* lines 169-175: a click on a sidebar entry
HandleTreeListClick(name) ==
  /\ mounted /\ name \in VisibleNames
  /\ nClicks < MaxClicks /\ nTasks < MaxTasks
  /\ nClicks' = nClicks + 1
  /\ nTasks' = nTasks + 1
  /\ clickLog' = << [name |-> name, before |-> highlightedTree,
                      prev |-> IF clickLog = <<>> THEN None ELSE clickLog[1].name] >>
  /\ highlightedTree' = ToggleTarget(name, highlightedTree)
  /\ timerQueue' = OrphanTimers(timerQueue)
  /\ LET treeName == ToggleTarget(name, highlightedTree)
         clusters == RenderedClusters(sourceData, view)
     IN  IF treeName # None /\ clusters # <<>>
         THEN /\ tasks' = tasks \cup {HighlightTask(nTasks + 1, "click", treeName, clusters)}
              /\ UNCHANGED filterVars
         ELSE /\ SetFilters(treeName, clusters, <<>>)
              /\ UNCHANGED tasks
  /\ UNCHANGED <<treeLocations, visibleTrees, isFormVisible, newTreeCoordinates,
                 mapLoaded, dataLoaded, layersLoaded>>
  /\ UNCHANGED <<mounted, view, sourceData, layerInstalls, idleHooks>>
  /\ UNCHANGED <<dwellTimers, pendingAdds, pendingRemoves, popup, pointer,
                 longPressTimeoutRef>>
  /\ UNCHANGED <<aggGen, nPresses, nRemote, pub, rejected, presses, intents,
                 sentTokens, remoteLog>>

(***************************************************************************)
(* Cluster expansions settling: getClusterFeatures, lines 65-76.           *)
(***************************************************************************)
\* lines 69-70: the engine reports an error; nothing catches the rejection, so
\* the pass (and the updateMap or idle listener awaiting it) ends here
ExpansionFails(t) ==
  /\ mounted /\ t \in tasks
  /\ tasks' = tasks \ {t}
  /\ rejected' = rejected \cup {[kind |-> t.kind, stage |-> t.stage]}
  /\ UNCHANGED <<reactVars, mapVars>>
  /\ UNCHANGED <<timerQueue, dwellTimers, pendingAdds, pendingRemoves, popup, pointer,
                 longPressTimeoutRef>>
  /\ UNCHANGED <<nTasks, aggGen, nClicks, nPresses, nRemote, pub,
                 lastFilterWrite, clickLog, presses, intents, sentTokens, remoteLog>>

\* lines 156-162: the leaves of cluster t.i arrive in highlightTree
HighlightResolves(t) ==
  /\ mounted /\ t \in tasks /\ t.stage = "highlight"
  /\ LET cid == t.items[t.i].id
         leaves == ClusterLeaves(sourceData, cid)
         ids == IF LeavesMatch(leaves, t.name) THEN Append(t.ids, cid) ELSE t.ids
     IN  IF t.i < Len(t.items)
         THEN /\ tasks' = (tasks \ {t}) \cup {[t EXCEPT !.i = t.i + 1, !.ids = ids]}
              /\ UNCHANGED <<filterVars, visibleTrees, aggGen, pub, layersLoaded, sourceData>>
         ELSE /\ SetFilters(t.name, t.items, ids)
              /\ IF t.kind = "updateMap"
                 THEN StartAggregation("updateMap", t.id, tasks \ {t})
                 ELSE /\ tasks' = tasks \ {t}
                      /\ UNCHANGED <<visibleTrees, aggGen, pub, layersLoaded, sourceData>>
  /\ UNCHANGED <<treeLocations, highlightedTree, isFormVisible, newTreeCoordinates,
                 mapLoaded, dataLoaded>>
  /\ UNCHANGED <<mounted, view, layerInstalls, idleHooks>>
  /\ UNCHANGED <<timerQueue, dwellTimers, pendingAdds, pendingRemoves, popup, pointer,
                 longPressTimeoutRef>>
  /\ UNCHANGED <<nTasks, nClicks, nPresses, nRemote, rejected, clickLog, presses,
                 intents, sentTokens, remoteLog>>

\* lines 86-94: the leaves of cluster t.i arrive in updateVisibleTrees
AggregateResolves(t) ==
  /\ mounted /\ t \in tasks /\ t.stage = "aggregate"
  /\ LET item == t.items[t.i]
         leaves == ClusterLeaves(sourceData, item.id)
     IN  ContinueAggregation(t.kind, t.id, t.gen, t.raw, t.items,
                             AggRun(t.items, t.i + 1, GroupFeatures(t.groups, leaves, item)),
                             tasks \ {t})
  /\ UNCHANGED <<treeLocations, highlightedTree, isFormVisible, newTreeCoordinates,
                 mapLoaded, dataLoaded>>
  /\ UNCHANGED <<mounted, view, layerInstalls, idleHooks, pointFilter, clusterFilter>>
  /\ UNCHANGED <<timerQueue, dwellTimers, pendingAdds, pendingRemoves, popup, pointer,
                 longPressTimeoutRef>>
  /\ UNCHANGED <<nTasks, aggGen, nClicks, nPresses, nRemote, rejected,
                 lastFilterWrite, clickLog, presses, intents, sentTokens, remoteLog>>


(***************************************************************************)
(* The long-press gesture, lines 241-278.                                  *)
(***************************************************************************)
\* lines 264-269 and 353-356: the pointer handlers are subscribed
PointerSubscribed == mounted /\ mapLoaded /\ dataLoaded /\ layersLoaded

\* what a pointer-down can land on: empty map area, a rendered point or cluster
EmptyTarget == [kind |-> "empty", id |-> 0]
Targets ==
  LET pts == RenderedPoints(sourceData, view)
      cls == RenderedClusters(sourceData, view)
  IN  {EmptyTarget}
      \cup { [kind |-> "point", id |-> pts[k].id] :
                 k \in { j \in 1..Len(pts) : pts[j].id \in PressedPoints } }
      \cup { [kind |-> "cluster", id |-> cls[k].id] : k \in 1..Len(cls) }

\* lines 248-250: queryRenderedFeatures(event.point, {layers: [...]})
HitTest(target) == IF target.kind = "empty" THEN <<>> ELSE <<target>>

\* startPress without its hit-test gate
SchedulesDwellAlways(features) == TRUE

\* line 251: the gate of startPress
SchedulesDwell(features) == Len(features) = 0

\* endPress without its clearTimeout
ClearTimeoutMissing(timers, ref) == timers

\* lines 258-261: clearTimeout(longPressTimeoutRef.current)
ClearTimeout(timers, ref) == { t \in timers : t.id # ref }

\* handleLongPress reading the latest pointer event instead of the captured one
LongPressCoordinatesLatest(event) == EventLngLat(nPresses)

\* line 243: the coordinate handleLongPress stores, from the event startPress captured
LongPressCoordinates(event) == event.lngLat

\* lines 247-255 (startPress) and, over a point, lines 327-344 (createTreePopup):
\* a mousedown / touchstart event
PointerDown(target) ==
  /\ PointerSubscribed /\ nPresses < MaxPresses
  /\ target \in Targets
  /\ nPresses' = nPresses + 1
  /\ pointer' = nPresses + 1
  /\ presses' = Append(presses, [lngLat |-> EventLngLat(nPresses + 1),
                                 empty |-> target.kind = "empty", released |-> FALSE])
  /\ IF SchedulesDwell(HitTest(target))
     THEN /\ popup' = {}
          /\ dwellTimers' = dwellTimers \cup
               {[id |-> nPresses + 1, lngLat |-> EventLngLat(nPresses + 1)]}
          /\ longPressTimeoutRef' = nPresses + 1
     ELSE /\ popup' = IF target.kind = "point"
                      THEN {[location_id |-> target.id, captured |-> treeLocations]}
                      ELSE popup
          /\ UNCHANGED <<dwellTimers, longPressTimeoutRef>>
  /\ UNCHANGED <<reactVars, mapVars>>
  /\ UNCHANGED <<tasks, timerQueue, pendingAdds, pendingRemoves>>
  /\ UNCHANGED <<nTasks, aggGen, nClicks, nRemote, pub, rejected, lastFilterWrite,
                 clickLog, intents, sentTokens, remoteLog>>

\* lines 257-262 (endPress): a mouseup / touchend / touchcancel event
PointerUp ==
  /\ PointerSubscribed /\ pointer # 0
  /\ pointer' = 0
  /\ presses' = [presses EXCEPT ![pointer].released =
                   \A k \in 1..Len(intents) : intents[k].press # pointer]
  /\ IF longPressTimeoutRef # NoTimer
     THEN /\ dwellTimers' = ClearTimeout(dwellTimers, longPressTimeoutRef)
          /\ longPressTimeoutRef' = NoTimer
     ELSE UNCHANGED <<dwellTimers, longPressTimeoutRef>>
  /\ UNCHANGED <<reactVars, mapVars>>
  /\ UNCHANGED <<tasks, timerQueue, pendingAdds, pendingRemoves, popup>>
  /\ UNCHANGED <<nTasks, aggGen, nClicks, nPresses, nRemote, pub, rejected,
                 lastFilterWrite, clickLog, intents, sentTokens, remoteLog>>

\* lines 242-245 and 253: the dwell timer elapses and calls handleLongPress(event);
\* after teardown the two state setters have no effect
DwellElapses(t) ==
  /\ t \in dwellTimers
  /\ dwellTimers' = dwellTimers \ {t}
  /\ intents' = Append(intents, [press |-> t.id, lngLat |-> LongPressCoordinates(t),
                                 live |-> mounted])
  /\ newTreeCoordinates' = IF mounted THEN LongPressCoordinates(t) ELSE newTreeCoordinates
  /\ isFormVisible' = IF mounted THEN TRUE ELSE isFormVisible
  /\ UNCHANGED <<treeLocations, visibleTrees, highlightedTree, mapLoaded, dataLoaded,
                 layersLoaded>>
  /\ UNCHANGED mapVars
  /\ UNCHANGED <<tasks, timerQueue, pendingAdds, pendingRemoves, popup, pointer,
                 longPressTimeoutRef>>
  /\ UNCHANGED <<nTasks, aggGen, nClicks, nPresses, nRemote, pub, rejected,
                 lastFilterWrite, clickLog, presses, sentTokens, remoteLog>>

\* lines 123-126, called by the form's onCancel
HandleAddTreeCancel ==
  /\ mounted /\ isFormVisible
  /\ newTreeCoordinates' = NoCoord
  /\ isFormVisible' = FALSE
  /\ UNCHANGED <<treeLocations, visibleTrees, highlightedTree, mapLoaded, dataLoaded,
                 layersLoaded>>
  /\ UNCHANGED <<mapVars, asyncVars, histVars>>

\* lines 186-191: the Escape key removes the popup and cancels the form
HandleEscapeKey ==
  /\ mounted
  /\ popup' = {}
  /\ newTreeCoordinates' = NoCoord
  /\ isFormVisible' = FALSE
  /\ UNCHANGED <<treeLocations, visibleTrees, highlightedTree, mapLoaded, dataLoaded,
                 layersLoaded>>
  /\ UNCHANGED <<tasks, timerQueue, dwellTimers, pendingAdds, pendingRemoves, pointer,
                 longPressTimeoutRef>>
  /\ UNCHANGED <<mapVars, histVars>>

(***************************************************************************)
(* Adding and removing entities, lines 128-147 and 287-301.                *)
(***************************************************************************)
\* the record the server confirms for call number n: it assigns the identity
ServerRecord(n, newTree) ==
  [location_id |-> Len(Fetched) + n, common_name |-> newTree.common_name,
   cell |-> newTree.cell]

\* treeToFeature of ./api: the GeoJSON feature of a confirmed record
TreeToFeature(tree) == Entity(tree.location_id, tree.common_name, tree.cell)

\* lines 139-142: the collection handleAddTreeSubmit sets, from the treeLocations
\* of the render that created the handler
CollectionAfterAdd(captured, addedTree) == Append(captured, TreeToFeature(addedTree))

\* an optimistic insertion that the catch block does not take back
CollectionAfterAddErrorOptimistic(current, newTree) ==
  Append(current, Entity(0, newTree.common_name, newTree.cell))

\* lines 144-146: the catch block leaves the collection alone
CollectionAfterAddError(current, newTree) == current

\* lines 294-300: the collection removeTree sets, from the treeLocations of the
\* effect run that created the popup handler
CollectionAfterRemove(captured, locationId) ==
  LET keep(feature) == feature.location_id # locationId IN SelectSeq(captured, keep)

\* line 293 rejects: nothing after the await runs
CollectionAfterRemoveError(current, locationId) == current

\* line 289: !removedBy
Cancelled(removedBy) == removedBy.null \/ removedBy.text = <<>>

\* the remote calls settled so far: the records confirmed by sendAddLocation, the
\* identities confirmed removed by sendRemoveLocation, and whether a call failed
Settled ==
  IF remoteLog = <<>> THEN [added |-> {}, removed |-> {}, failed |-> FALSE]
  ELSE remoteLog[1].settled

\* lines 128-138: the form submits; sendAddLocation is in flight
HandleAddTreeSubmit(name) ==
  /\ mounted /\ isFormVisible /\ nRemote < MaxRemote
  /\ nRemote' = nRemote + 1
  /\ pendingAdds' = pendingAdds \cup
       { [id |-> nRemote + 1, captured |-> treeLocations,
          newTree |-> [common_name |-> name, cell |-> CellOf(newTreeCoordinates)]] }
  /\ UNCHANGED <<reactVars, mapVars>>
  /\ UNCHANGED <<tasks, timerQueue, dwellTimers, pendingRemoves, popup, pointer,
                 longPressTimeoutRef>>
  /\ UNCHANGED <<nTasks, aggGen, nClicks, nPresses, pub, rejected, lastFilterWrite,
                 clickLog, presses, intents, sentTokens, remoteLog>>

\* lines 139-143: sendAddLocation resolves with the confirmed record
AddResolves(a) ==
  /\ mounted /\ a \in pendingAdds
  /\ pendingAdds' = pendingAdds \ {a}
  /\ LET addedTree == ServerRecord(a.id, a.newTree)
     IN  /\ treeLocations' = CollectionAfterAdd(a.captured, addedTree)
         /\ EffectsOfCollection(CollectionAfterAdd(a.captured, addedTree))
         /\ remoteLog' = << [kind |-> "add", ok |-> TRUE, before |-> treeLocations,
                             record |-> TreeToFeature(addedTree),
                             settled |-> [Settled EXCEPT
                                            !.added = @ \cup {TreeToFeature(addedTree)}]] >>
  /\ isFormVisible' = FALSE
  /\ UNCHANGED <<visibleTrees, highlightedTree, newTreeCoordinates, mapLoaded, dataLoaded,
                 layersLoaded>>
  /\ UNCHANGED <<mounted, view, pointFilter, clusterFilter>>
  /\ UNCHANGED <<tasks, timerQueue, dwellTimers, pendingRemoves, popup, pointer,
                 longPressTimeoutRef>>
  /\ UNCHANGED <<nTasks, aggGen, nClicks, nPresses, nRemote, pub, rejected,
                 lastFilterWrite, clickLog, presses, intents, sentTokens>>

\* lines 144-146: sendAddLocation rejects
AddRejects(a) ==
  /\ mounted /\ a \in pendingAdds
  /\ pendingAdds' = pendingAdds \ {a}
  /\ treeLocations' = CollectionAfterAddError(treeLocations, a.newTree)
  /\ remoteLog' = << [kind |-> "add", ok |-> FALSE, before |-> treeLocations,
                      record |-> TreeToFeature(ServerRecord(a.id, a.newTree)),
                      settled |-> [Settled EXCEPT !.failed = TRUE]] >>
  /\ UNCHANGED <<visibleTrees, highlightedTree, isFormVisible, newTreeCoordinates,
                 mapLoaded, dataLoaded, layersLoaded>>
  /\ UNCHANGED mapVars
  /\ UNCHANGED <<tasks, timerQueue, dwellTimers, pendingRemoves, popup, pointer,
                 longPressTimeoutRef>>
  /\ UNCHANGED <<nTasks, aggGen, nClicks, nPresses, nRemote, pub, rejected,
                 lastFilterWrite, clickLog, presses, intents, sentTokens>>

\* lines 321-325 and 287-293: a click on the popup's close button runs removeTree;
\* window.prompt returns removedBy
HandlePopupButtonClose(removedBy) ==
  /\ mounted /\ popup # {} /\ nRemote < MaxRemote
  /\ popup' = {}
  /\ IF Cancelled(removedBy)
     THEN UNCHANGED <<pendingRemoves, nRemote, sentTokens>>
     ELSE /\ nRemote' = nRemote + 1
          /\ sentTokens' = sentTokens \cup {removedBy}
          /\ pendingRemoves' = pendingRemoves \cup
               { [id |-> nRemote + 1, locationId |-> p.location_id,
                  captured |-> p.captured] : p \in popup }
  /\ UNCHANGED <<reactVars, mapVars>>
  /\ UNCHANGED <<tasks, timerQueue, dwellTimers, pendingAdds, pointer, longPressTimeoutRef>>
  /\ UNCHANGED <<nTasks, aggGen, nClicks, nPresses, pub, rejected, lastFilterWrite,
                 clickLog, presses, intents, remoteLog>>

\* lines 294-300: sendRemoveLocation resolves
RemoveResolves(r) ==
  /\ mounted /\ r \in pendingRemoves
  /\ pendingRemoves' = pendingRemoves \ {r}
  /\ treeLocations' = CollectionAfterRemove(r.captured, r.locationId)
  /\ EffectsOfCollection(CollectionAfterRemove(r.captured, r.locationId))
  /\ remoteLog' = << [kind |-> "remove", ok |-> TRUE, before |-> treeLocations,
                      record |-> Entity(r.locationId, "", 0),
                      settled |-> [Settled EXCEPT !.removed = @ \cup {r.locationId}]] >>
  /\ UNCHANGED <<visibleTrees, highlightedTree, isFormVisible, newTreeCoordinates,
                 mapLoaded, dataLoaded, layersLoaded>>
  /\ UNCHANGED <<mounted, view, pointFilter, clusterFilter>>
  /\ UNCHANGED <<tasks, timerQueue, dwellTimers, pendingAdds, popup, pointer,
                 longPressTimeoutRef>>
  /\ UNCHANGED <<nTasks, aggGen, nClicks, nPresses, nRemote, pub, rejected,
                 lastFilterWrite, clickLog, presses, intents, sentTokens>>

\* line 293: sendRemoveLocation rejects; the rejection is not caught
RemoveRejects(r) ==
  /\ mounted /\ r \in pendingRemoves
  /\ pendingRemoves' = pendingRemoves \ {r}
  /\ treeLocations' = CollectionAfterRemoveError(treeLocations, r.locationId)
  /\ remoteLog' = << [kind |-> "remove", ok |-> FALSE, before |-> treeLocations,
                      record |-> Entity(r.locationId, "", 0),
                      settled |-> [Settled EXCEPT !.failed = TRUE]] >>
  /\ UNCHANGED <<visibleTrees, highlightedTree, isFormVisible, newTreeCoordinates,
                 mapLoaded, dataLoaded, layersLoaded>>
  /\ UNCHANGED mapVars
  /\ UNCHANGED <<tasks, timerQueue, dwellTimers, pendingAdds, popup, pointer,
                 longPressTimeoutRef>>
  /\ UNCHANGED <<nTasks, aggGen, nClicks, nPresses, nRemote, pub, rejected,
                 lastFilterWrite, clickLog, presses, intents, sentTokens>>

(***************************************************************************)
(* Specifications.                                                         *)
(***************************************************************************)
StartUp == MapLoad \/ FetchData \/ MapIdle \/ Teardown

Viewing ==
  \/ \E v \in Views : ViewChange(v)
  \/ DebounceFires
  \/ DebounceFiresUnmounted
  \/ \E name \in Names : HandleTreeListClick(name)
  \/ \E t \in tasks : ExpansionFails(t)
  \/ \E t \in tasks : HighlightResolves(t)
  \/ \E t \in tasks : AggregateResolves(t)

Gestures ==
  \/ \E target \in Targets : PointerDown(target)
  \/ PointerUp
  \/ \E t \in dwellTimers : DwellElapses(t)
  \/ HandleAddTreeCancel
  \/ HandleEscapeKey

Mutations ==
  \/ \E name \in FormNames : HandleAddTreeSubmit(name)
  \/ \E a \in pendingAdds : AddResolves(a)
  \/ \E a \in pendingAdds : AddRejects(a)
  \/ \E removedBy \in Tokens : HandlePopupButtonClose(removedBy)
  \/ \E r \in pendingRemoves : RemoveResolves(r)
  \/ \E r \in pendingRemoves : RemoveRejects(r)

Next == StartUp \/ Viewing \/ Gestures \/ Mutations

\* the whole component
Spec == Init /\ [][Next]_vars

\* the component while the user only pans, zooms and clicks the sidebar
SpecView == Init /\ [][StartUp \/ Viewing]_vars

\* the component while the user only presses
SpecGesture == Init /\ [][StartUp \/ Gestures]_vars

\* the component while the user only presses, adds and removes
SpecEdit == Init /\ [][StartUp \/ Gestures \/ Mutations]_vars


(***************************************************************************)
(* Properties.                                                             *)
(***************************************************************************)
SetOf(seq) == { seq[k] : k \in 1..Len(seq) }

IntentsOf(p) == { k \in 1..Len(intents) : intents[k].press = p }

TimerPending(p) == \E t \in dwellTimers : t.id = p

\* C1: generation ordering: the published sidebar list is the result of the
\* newest aggregation pass that has published; an older pass that resolves
\* later never replaces it.
C1_GenerationOrdering == visibleTrees = pub.maxResult

\* C2: gesture cancellation: a press over empty map area whose pointer-up
\* arrived before the dwell timer elapsed has no pending timer and never gets
\* a create-intent.
C2_GestureCancellation ==
  \A p \in 1..Len(presses) :
    (presses[p].empty /\ presses[p].released) => (~TimerPending(p) /\ IntentsOf(p) = {})

C2_Witness ==
  \E p \in 1..Len(presses) :
    presses[p].empty /\ presses[p].released /\ pointer = 0 /\ intents # <<>>

\* C3: long-press resolution: a press over empty map area held until its dwell
\* timer elapses gets exactly one create-intent, which carries the coordinate
\* of that pointer-down; the form shows that coordinate.
C3_LongPressResolution ==
  /\ \A k \in 1..Len(intents) :
       /\ presses[intents[k].press].empty
       /\ intents[k].lngLat = presses[intents[k].press].lngLat
       /\ IntentsOf(intents[k].press) = {k}
  /\ \A p \in 1..Len(presses) :
       (presses[p].empty /\ pointer = p /\ ~TimerPending(p)) => IntentsOf(p) # {}
  /\ (mounted /\ isFormVisible) =>
       (intents # <<>> /\ newTreeCoordinates = presses[intents[Len(intents)].press].lngLat)

C3_Witness ==
  /\ mounted /\ isFormVisible /\ Len(presses) = 2 /\ Len(intents) = 1
  /\ intents[1].press = 1
  /\ newTreeCoordinates = presses[1].lngLat

\* C4: hit-test gate: a press that lands on a point or a cluster schedules no
\* dwell timer and never gets a create-intent.
C4_HitTestGate ==
  \A p \in 1..Len(presses) :
    ~presses[p].empty => (~TimerPending(p) /\ IntentsOf(p) = {})

C4_Witness ==
  \E p \in 1..Len(presses) : ~presses[p].empty /\ pointer = p /\ intents # <<>>

\* C5: toggle semantics: a click on the highlighted category clears the
\* highlight, a click on any other category highlights exactly that one, also
\* right after a click on a different category; the state is one category or none.
C5_ToggleSemantics ==
  /\ highlightedTree \in Names \cup {None}
  /\ \A k \in 1..Len(clickLog) :
       /\ highlightedTree = IF clickLog[k].before = clickLog[k].name
                            THEN None ELSE clickLog[k].name
       /\ (clickLog[k].prev # None /\ clickLog[k].prev # clickLog[k].name)
            => highlightedTree = clickLog[k].name

C5_Witness ==
  \E k \in 1..Len(clickLog) :
    clickLog[k].prev = clickLog[k].name /\ clickLog[k].before = clickLog[k].name
    /\ highlightedTree = None

\* C6: highlight correctness: once highlightTree(C) has set the filters, the
\* cluster filter holds exactly the rendered clusters that have a leaf of
\* category C, and the point filter is C.
C6_HighlightCorrectness ==
  \A k \in 1..Len(lastFilterWrite) :
    LET w == lastFilterWrite[k]
        hasLeaf(c) == \E e \in 1..Len(sourceData) :
                        sourceData[e].cell = c /\ sourceData[e].common_name = w.name
    IN  w.name # None =>
          /\ pointFilter = w.name
          /\ SetOf(clusterFilter) = { c \in { f.id : f \in SetOf(w.clusters) } : hasLeaf(c) }

C6_Witness ==
  \E k \in 1..Len(lastFilterWrite) :
    /\ lastFilterWrite[k].name = "Oak"
    /\ Len(lastFilterWrite[k].clusters) = 2
    /\ clusterFilter = <<1>>

\* C7: remove gating: sendRemoveLocation is never called with a confirmation
\* token that is missing, empty or only whitespace.
C7_RemoveGating ==
  \A removedBy \in sentTokens :
    /\ ~removedBy.null
    /\ \E k \in 1..Len(removedBy.text) : removedBy.text[k] # " "

\* C8: no mutation on remote failure: after a failed add or remove the
\* collection is the one before the failure, and no record of an add still in
\* flight is in the collection.
C8_NoMutationOnFailure ==
  /\ \A k \in 1..Len(remoteLog) :
       ~remoteLog[k].ok => treeLocations = remoteLog[k].before
  /\ \A a \in pendingAdds :
       \A e \in 1..Len(treeLocations) :
         /\ treeLocations[e].location_id # Len(Fetched) + a.id
         /\ treeLocations[e].location_id # 0

C8_Witness ==
  \E k \in 1..Len(remoteLog) :
    ~remoteLog[k].ok /\ remoteLog[k].kind = "add" /\ isFormVisible /\ pendingAdds = {}

\* C9: add round-trip: after a successful add the collection is the collection
\* before it plus the confirmed record, and the source holds that collection.
C9_AddRoundTrip ==
  \A k \in 1..Len(remoteLog) :
    (remoteLog[k].kind = "add" /\ remoteLog[k].ok) =>
      /\ treeLocations = Append(remoteLog[k].before, remoteLog[k].record)
      /\ sourceData = treeLocations

\* C10: expansion failure is local: a failed cluster expansion never ends an
\* aggregation pass.
C10_ExpansionFailureIsLocal ==
  \A r \in rejected : r.stage # "aggregate"

\* the categories a pass has to report for the rendered features raw: those of
\* the points and those of the leaves of the clusters
CategoriesOf(raw) ==
  UNION { IF raw[k].cluster
          THEN { l.common_name : l \in SetOf(ClusterLeaves(sourceData, raw[k].id)) }
          ELSE { raw[k].common_name } : k \in 1..Len(raw) }

\* how often the point location_id occurs among the features of one category
PointCount(feats, location_id) ==
  Cardinality({ k \in 1..Len(feats) : ~feats[k].cluster /\ feats[k].id = location_id })

\* C11 (aggregation completeness): the categories of the published list are the
\* categories of the rendered points and of the leaves of the rendered clusters
\* the publishing pass queried, and a point the engine returned more than once
\* is listed once under its category.
C11_AggregationCompleteness ==
  pub.count > 0 =>
    /\ { visibleTrees[k].name : k \in 1..Len(visibleTrees) } = CategoriesOf(pub.raw)
    /\ \A k \in 1..Len(visibleTrees) : \A j \in 1..Len(pub.raw) :
          ~pub.raw[j].cluster => PointCount(visibleTrees[k].feats, pub.raw[j].id) <= 1

\* a pass has published for a viewport in which the engine returned a point twice
C11_Witness ==
  /\ pub.count > 0 /\ visibleTrees # <<>>
  /\ \E i, j \in 1..Len(pub.raw) :
        i < j /\ ~pub.raw[i].cluster /\ ~pub.raw[j].cluster /\ pub.raw[i].id = pub.raw[j].id

\* the aggregation passes that wait for a cluster expansion
PassesInFlight == { t \in tasks : t.stage = "aggregate" }

\* C12 (atomic publish): every aggregation pass that is no longer waiting for an
\* expansion has published exactly once, and the pass that published last is not
\* waiting for an expansion any more.
C12_AtomicPublish ==
  /\ pub.count = aggGen - Cardinality(PassesInFlight)
  /\ \A t \in PassesInFlight : pub.count > 0 => t.gen # pub.gen

\* the distinct rendered features listed under one category
DistinctFeatures(feats) == { feats[k] : k \in 1..Len(feats) }

\* C13 (distinct features per category): in the published list no category lists
\* a rendered feature twice, and the categories are ordered by descending number
\* of distinct features.
C13_DistinctFeaturesPerCategory ==
  /\ \A k \in 1..Len(visibleTrees) :
       Cardinality(DistinctFeatures(visibleTrees[k].feats)) = Len(visibleTrees[k].feats)
  /\ \A k \in 1..(Len(visibleTrees) - 1) :
       Cardinality(DistinctFeatures(visibleTrees[k].feats))
         >= Cardinality(DistinctFeatures(visibleTrees[k + 1].feats))

\* nothing that writes the highlight filters is pending: no highlight pass waits
\* for an expansion and no debounce timer is running
HighlightQuiescent ==
  /\ timerQueue = <<>>
  /\ \A t \in tasks : t.stage # "highlight"

\* C14 (filters follow the highlight state): once every highlight pass and every
\* debounced update has completed without a failed expansion, the filter of
\* 'highlighted-point' is the one of the current highlight state, and without a
\* selected category both filters match nothing.
C14_FiltersFollowHighlight ==
  (mounted /\ mapLoaded /\ HighlightQuiescent /\ rejected = {}) =>
    /\ pointFilter = (IF highlightedTree = None THEN "" ELSE highlightedTree)
    /\ highlightedTree = None => clusterFilter = <<NoId>>

\* C15 (debounce coalescing): at every moment at most one debounce timer of the
\* viewport-settle channel is pending.
C15_SinglePendingTimer == Len(timerQueue) <= 1

\* lines 231-239: addTreeLayers has run and the "idle" pass has set layersLoaded
LayersPresent == layerInstalls > 0 /\ layersLoaded

\* C16 (readiness gating): a pointer handler or the viewport-settle handler is
\* subscribed only while the map is loaded, the data is loaded and the tree
\* layers are present, and no handler has set the highlight filters before the
\* layers were added.
C16_ReadinessGating ==
  /\ (PointerSubscribed \/ ViewportSubscribed) => (mapLoaded /\ dataLoaded /\ LayersPresent)
  /\ lastFilterWrite # <<>> => layerInstalls > 0

\* C17 (teardown): no handleLongPress call was made by a dwell timer after the
\* component was torn down, and no debounce timer has run updateMap against the
\* removed map.
C17_TeardownSilencesHandlers ==
  /\ \A k \in 1..Len(intents) : intents[k].live
  /\ \A r \in rejected : r.stage # "disposed"

\* something that will call updateVisibleTrees is pending: an "idle" listener, a
\* debounce timer, or an updateMap still in its highlightTree
AggregationPending ==
  \/ idleHooks > 0
  \/ timerQueue # <<>>
  \/ \E t \in tasks : t.kind = "updateMap" /\ t.stage = "highlight"

\* C18 (aggregation triggers): a category click that changes the highlight state
\* starts an aggregation pass or leaves one pending, so that one is run after it.
C18_AggregationTriggers ==
  [][(nClicks' = nClicks + 1 /\ highlightedTree' # highlightedTree)
       => (aggGen' > aggGen \/ AggregationPending')]_vars

\* C19 (no lost updates): once every remote add and remove has completed
\* successfully, the Entity Collection holds the fetched records and every
\* confirmed added record, except the removed ones.
C19_NoLostUpdates ==
  (mounted /\ remoteLog # <<>> /\ ~Settled.failed
     /\ pendingAdds = {} /\ pendingRemoves = {}) =>
    SetOf(treeLocations) =
      { e \in SetOf(Fetched) \cup Settled.added : e.location_id \notin Settled.removed }

\* C20 (single layer installation): addTreeLayers is called at most once.
C20_SingleLayerInstallation == layerInstalls <= 1

====
